---- MODULE Spec2Model ----
(***************************************************************************)
(* Helpdesk ticket backend (Django REST framework): the ticket store, the  *)
(* three serializers and the list/create, retrieve/update and stats views. *)
(* Text values are sequences of one-character strings so that trimming,    *)
(* length checks and case-insensitive search are computed, not assumed.    *)
(***************************************************************************)
EXTENDS Integers, Sequences, FiniteSets, TLC

\* last_write records which request wrote the store most recently; no handler
\* reads it.  inflight holds the handlers that have started and not yet
\* answered, for the runs in which requests overlap.
VARIABLES tickets, clock, last_write, inflight, req, resp

vars == <<tickets, clock, last_write, inflight, req, resp>>

\* ------------------------------------------------------------------ bounds
MaxTickets == 2
MaxClock == 1
MaxWorkers == 2

\* ------------------------------------------------------- program constants
TitleMinLen == 3
DescMinLen == 10
TitleMaxLen == 200
PhoneMaxLen == 20
EmailMaxLen == 254
PageSize == 20

\* ------------------------------------------------------------ text values
Null == <<"<null>">>
Absent == <<"<absent>">>
NoStatus == "<absent>"

Whitespace == {" "}

RECURSIVE LStrip(_)
LStrip(s) == IF s # <<>> /\ Head(s) \in Whitespace THEN LStrip(Tail(s)) ELSE s

RECURSIVE RStrip(_)
RStrip(s) ==
    IF s # <<>> /\ s[Len(s)] \in Whitespace
    THEN RStrip(SubSeq(s, 1, Len(s) - 1))
    ELSE s

\* str.strip()
Strip(s) == RStrip(LStrip(s))

LowerChar(c) ==
    CASE c = "H" -> "h"
      [] c = "N" -> "n"
      [] c = "T" -> "t"
      [] c = "S" -> "s"
      [] c = "E" -> "e"
      [] OTHER -> c

Lower(s) == [i \in 1..Len(s) |-> LowerChar(s[i])]

\* Python "needle in haystack" on sequences
Contains(hay, needle) ==
    \E i \in 0..(Len(hay) - Len(needle)) :
        \A j \in 1..Len(needle) : hay[i + j] = needle[j]

\* the icontains lookup
IContains(hay, needle) == Contains(Lower(hay), Lower(needle))

Repeat(c, n) == [i \in 1..n |-> c]

\* ------------------------------------------------------------ input texts
T_Hi == <<"H", "i">>
T_Hi3 == <<"H", "i", "!">>
T_HiPad == <<" ", "H", "i", " ">>
T_Hi3Pad == <<" ", "H", "i", "!", " ">>
T_Net == <<"N", "e", "t">>
T_Long == Repeat("a", TitleMaxLen + 1)

D_9 == <<"T", "o", "o", " ", "s", "h", "o", "r", "t">>
D_10 == D_9 \o <<"!">>
D_9Pad == <<" ">> \o D_9 \o <<" ">>
D_10Pad == <<" ">> \o D_10 \o <<" ", " ">>

E_Ok == <<"a", "@", "x", ".", "y">>
E_Bad == <<"a", "x", ".", "y">>

P_20 == Repeat("1", PhoneMaxLen)
P_21 == Repeat("1", PhoneMaxLen + 1)
P_20Pad == P_20 \o <<" ">>

Statuses == {"pending", "accepted", "resolved", "rejected"}

\* ------------------------------------------------------------ serializers
\* Outcome of one serializer field: "skip" (not in validated_data), "error"
\* (an entry in serializer.errors) or "ok" with the validated value.
Skip == [state |-> "skip", value |-> Absent]
Error == [state |-> "error", value |-> Absent]
Ok(v) == [state |-> "ok", value |-> v]

\* Django's EmailValidator: one "@" splitting a non-empty user part from a
\* dotted domain whose labels are non-empty.
IsEmail(s) ==
    \E k \in 1..Len(s) :
        /\ s[k] = "@"
        /\ k > 1
        /\ \A i \in 1..Len(s) : (i # k) => s[i] \notin ({"@"} \cup Whitespace)
        /\ k < Len(s)
        /\ s[k + 1] # "."
        /\ s[Len(s)] # "."
        /\ \E i \in (k + 2)..(Len(s) - 1) : s[i] = "."
        /\ \A i \in (k + 1)..(Len(s) - 1) : ~(s[i] = "." /\ s[i + 1] = ".")

\* serializers.CharField.run_validation for a field generated from the model:
\* missing / null / blank handling, trim_whitespace, then max_length
\* (maxLen < 0: the field has no max_length).
CharField(data, partial, required, allowNull, allowBlank, maxLen) ==
    IF data = Absent
    THEN IF partial \/ ~required THEN Skip ELSE Error
    ELSE IF data = Null
    THEN IF allowNull THEN Ok(Null) ELSE Error
    ELSE LET s == Strip(data) IN
         IF s = <<>>
         THEN IF allowBlank THEN Ok(s) ELSE Error
         ELSE IF maxLen >= 0 /\ Len(s) > maxLen THEN Error ELSE Ok(s)

\* serializers.EmailField: a CharField followed by the EmailValidator
EmailField(data, partial) ==
    LET r == CharField(data, partial, TRUE, FALSE, FALSE, EmailMaxLen) IN
    IF r.state = "ok" /\ ~IsEmail(r.value) THEN Error ELSE r

\* variant: a plain text field where the choice field should be
ChoiceField_AnyValue(data) ==
    IF data = NoStatus THEN [state |-> "skip", value |-> NoStatus]
    ELSE [state |-> "ok", value |-> data]

\* serializers.ChoiceField generated for Ticket.status (the model default
\* makes it optional)
ChoiceField(data) ==
    IF data = NoStatus THEN [state |-> "skip", value |-> NoStatus]
    ELSE IF data \in Statuses THEN [state |-> "ok", value |-> data]
    ELSE [state |-> "error", value |-> NoStatus]

\* the validate_<field> hook runs on the value the field accepted
Hook(r, min) ==
    IF r.state # "ok" THEN r
    ELSE IF Len(Strip(r.value)) < min THEN Error
    ELSE Ok(Strip(r.value))

\* variant: the length test is off by one
TicketCreateSerializer_validate_title_OffByOne(r) == Hook(r, TitleMinLen - 1)
TicketCreateSerializer_validate_title(r) == Hook(r, TitleMinLen)
TicketCreateSerializer_validate_description(r) == Hook(r, DescMinLen)
TicketUpdateSerializer_validate_title(r) == Hook(r, TitleMinLen)

\* variant: the description hook tests against the title's minimum
TicketUpdateSerializer_validate_description_TitleMin(r) == Hook(r, TitleMinLen)
TicketUpdateSerializer_validate_description(r) == Hook(r, DescMinLen)
TicketSerializer_validate_title(r) == Hook(r, TitleMinLen)
TicketSerializer_validate_description(r) == Hook(r, DescMinLen)

TitleField(data, partial) == CharField(data, partial, TRUE, FALSE, FALSE, TitleMaxLen)
DescriptionField(data, partial) == CharField(data, partial, TRUE, FALSE, FALSE, -1)
PhoneField(data, partial) == CharField(data, partial, FALSE, TRUE, TRUE, PhoneMaxLen)

NoStatusField == [state |-> "skip", value |-> NoStatus]

\* variant: status listed among the create serializer's fields
TicketCreateSerializer_WithStatus(body) ==
    [title |-> TicketCreateSerializer_validate_title(TitleField(body.title, FALSE)),
     description |->
        TicketCreateSerializer_validate_description(DescriptionField(body.description, FALSE)),
     contact_email |-> EmailField(body.contact_email, FALSE),
     contact_phone |-> PhoneField(body.contact_phone, FALSE),
     status |-> ChoiceField(body.status)]

\* TicketCreateSerializer(data=body): status is not one of its fields
TicketCreateSerializer(body) ==
    [title |-> TicketCreateSerializer_validate_title(TitleField(body.title, FALSE)),
     description |->
        TicketCreateSerializer_validate_description(DescriptionField(body.description, FALSE)),
     contact_email |-> EmailField(body.contact_email, FALSE),
     contact_phone |-> PhoneField(body.contact_phone, FALSE),
     status |-> NoStatusField]

\* TicketUpdateSerializer(instance, data=body, partial=partial)
TicketUpdateSerializer(body, partial) ==
    [title |-> TicketUpdateSerializer_validate_title(TitleField(body.title, partial)),
     description |->
        TicketUpdateSerializer_validate_description(DescriptionField(body.description, partial)),
     contact_email |-> EmailField(body.contact_email, partial),
     contact_phone |-> PhoneField(body.contact_phone, partial),
     status |-> ChoiceField(body.status)]

\* TicketSerializer(data=body): id, created_at and updated_at are read-only,
\* the five model fields are writable
TicketSerializer(body) ==
    [title |-> TicketSerializer_validate_title(TitleField(body.title, FALSE)),
     description |->
        TicketSerializer_validate_description(DescriptionField(body.description, FALSE)),
     contact_email |-> EmailField(body.contact_email, FALSE),
     contact_phone |-> PhoneField(body.contact_phone, FALSE),
     status |-> ChoiceField(body.status)]

Fields == {"title", "description", "contact_email", "contact_phone", "status"}

\* serializer.errors (its keys) and serializer.is_valid()
Errors(ser) == {f \in Fields : ser[f].state = "error"}
IsValid(ser) == Errors(ser) = {}

\* ------------------------------------------------------------ ticket store
\* tickets[i] is the row with primary key i (keys are handed out in sequence
\* and no row is ever removed, so the table is a sequence).
Ticket(id, t, d, e, p, s, c, u) ==
    [id |-> id, title |-> t, description |-> d, contact_email |-> e,
     contact_phone |-> p, status |-> s, created_at |-> c, updated_at |-> u]

NoTicket == Ticket(0, Absent, Absent, Absent, Absent, NoStatus, 0, 0)

Ids == 1..Len(tickets)

\* ------------------------------------------------------------ requests
\* A JSON body: every key is present or Absent; id stands for the
\* server-assigned keys a caller may try to send (0: not sent).
Body(t, d, e, p, s, id) ==
    [title |-> t, description |-> d, contact_email |-> e, contact_phone |-> p,
     status |-> s, id |-> id]

NoBody == Body(Absent, Absent, Absent, Absent, NoStatus, 0)

\* Query parameters; a timestamp parameter that is not sent is NoTime.
NoTime == -1
Params(st, se) ==
    [status |-> st, search |-> se, created_after |-> NoTime, created_before |-> NoTime]
NoParams == Params(NoStatus, Absent)

Request(op, method, route, id, body, params) ==
    [op |-> op, method |-> method, route |-> route, id |-> id, body |-> body,
     params |-> params]

NoStats == [total |-> 0, pending |-> 0, accepted |-> 0, resolved |-> 0, rejected |-> 0]

Response(code, errors, data, count, results, stats) ==
    [code |-> code, errors |-> errors, data |-> data, count |-> count,
     results |-> results, stats |-> stats]

Plain(code) == Response(code, {}, NoTicket, 0, <<>>, NoStats)

\* POST bodies: four that validate, nine that do not
CreateBodies ==
    { Body(T_Hi3, D_10, E_Ok, P_20Pad, NoStatus, 0),
      Body(T_Hi3Pad, D_10Pad, E_Ok, Absent, "resolved", 9),
      Body(T_Net, D_10, E_Ok, Null, NoStatus, 0),
      Body(T_Net, D_10, E_Ok, P_20, "bogus", 0),
      Body(T_Hi, D_10, E_Ok, P_20, NoStatus, 0),
      Body(T_HiPad, D_10, E_Ok, P_20, NoStatus, 0),
      Body(T_Long, D_10, E_Ok, P_20, NoStatus, 0),
      Body(Absent, D_10, E_Ok, P_20, NoStatus, 0),
      Body(T_Hi3, D_9, E_Ok, P_20, NoStatus, 0),
      Body(T_Hi3, D_9Pad, E_Ok, Null, NoStatus, 0),
      Body(T_Hi3, D_10, E_Bad, P_20, NoStatus, 0),
      Body(T_Hi3, D_10, E_Ok, P_21, NoStatus, 0),
      Body(T_Hi, D_9, E_Ok, Absent, "accepted", 0) }

FullBody == Body(T_Net, D_10, E_Ok, P_20, "accepted", 0)
RequiredBody == Body(T_Hi3, D_10Pad, E_Ok, Absent, NoStatus, 0)
StatusBody(s) == Body(Absent, Absent, Absent, Absent, s, 0)
TitleBody(t) == Body(t, Absent, Absent, Absent, NoStatus, 0)

UpdateBodies ==
    { StatusBody(s) : s \in Statuses \cup {"bogus"} }
    \cup
    { TitleBody(T_Net),
      Body(T_Hi3Pad, Absent, Absent, Absent, NoStatus, 9),
      TitleBody(T_HiPad),
      Body(T_Net, Absent, Absent, Absent, "bogus", 0),
      Body(T_Hi, Absent, Absent, Absent, "resolved", 0),
      Body(Absent, Absent, Absent, P_20, NoStatus, 0),
      Body(Absent, Absent, Absent, Null, NoStatus, 0),
      Body(Absent, Absent, Absent, P_21, "accepted", 0),
      Body(Absent, D_10Pad, Absent, Absent, NoStatus, 0),
      Body(Absent, D_9, Absent, Absent, NoStatus, 0),
      Body(Absent, Absent, E_Bad, Absent, NoStatus, 0),
      Body(T_Net, D_10, Absent, Absent, "resolved", 0),
      Body(T_Hi3, D_10, E_Ok, P_20, "bogus", 0),
      TitleBody(T_Long),
      FullBody,
      RequiredBody,
      NoBody }

\* ------------------------------------------------------------ the clock
\* timezone.now(): each reading is the previous reading or later.
Now(d) == clock + d

NoRequest == Request("none", "GET", "none", 0, NoBody, NoParams)

\* lost: the fields in which the write put back an older value than the row
\* held (empty whenever the writer had read the row it replaced)
Write(op, id, lost) == [op |-> op, id |-> id, lost |-> lost]
NoWrite == Write("none", 0, {})

\* a request worker: what it is handling, the row get_object() gave it, and
\* how many of the stats queries it has run
Workers == 1..MaxWorkers
Worker(pc, request, instance, counted, stats) ==
    [pc |-> pc, req |-> request, instance |-> instance, counted |-> counted,
     stats |-> stats]
IdleWorker == Worker("idle", NoRequest, NoTicket, 0, NoStats)

Init ==
    /\ tickets = <<>>
    /\ clock = 0
    /\ last_write = NoWrite
    /\ inflight = [w \in Workers |-> IdleWorker]
    /\ req = NoRequest
    /\ resp = Plain(0)

\* One request is handled at a time: a handler runs when no response is
\* outstanding, and Respond hands the response back.
Idle == req = NoRequest

Respond ==
    /\ ~Idle
    /\ req' = NoRequest
    /\ resp' = Plain(0)
    /\ UNCHANGED <<tickets, clock, last_write, inflight>>

\* ------------------------------------------------------------ POST /tickets/
FieldOr(r, default) == IF r.state = "ok" THEN r.value ELSE default

\* variant: the two timestamps are written to each other's column
CreateSave_SwappedStamps(ser, c, u) ==
    Ticket(Len(tickets) + 1,
           ser.title.value, ser.description.value, ser.contact_email.value,
           FieldOr(ser.contact_phone, Null),
           FieldOr(ser.status, "pending"), u, c)

\* serializer.save() of a create serializer: Ticket.objects.create(**validated_data);
\* auto_now_add and auto_now each read the clock (created_at first).
CreateSave(ser, c, u) ==
    Ticket(Len(tickets) + 1,
           ser.title.value, ser.description.value, ser.contact_email.value,
           FieldOr(ser.contact_phone, Null),
           FieldOr(ser.status, "pending"), c, u)

create(body) ==
    LET ser == TicketCreateSerializer(body) IN
    /\ IF IsValid(ser)
       THEN /\ Len(tickets) < MaxTickets
            /\ \E d1 \in 0..1, d2 \in 0..1 :
                 /\ Now(d1 + d2) <= MaxClock
                 /\ LET ticket == CreateSave(ser, Now(d1), Now(d1 + d2)) IN
                    /\ tickets' = Append(tickets, ticket)
                    /\ clock' = Now(d1 + d2)
                    /\ last_write' = Write("create", ticket.id, {})
                    /\ resp' = Response(201, {}, ticket, 0, <<>>, NoStats)
       ELSE /\ resp' = Response(400, Errors(ser), NoTicket, 0, <<>>, NoStats)
            /\ UNCHANGED <<tickets, clock, last_write>>

Create ==
    \E body \in CreateBodies :
        /\ Idle
        /\ req' = Request("create", "POST", "collection", 0, body, NoParams)
        /\ UNCHANGED inflight
        /\ create(body)

\* ------------------------------------------------------------ PUT/PATCH /tickets/<pk>/
\* variant: every update is treated as partial
Partial_Always(method) == TRUE

\* UpdateModelMixin: put() calls update() with no partial keyword (so the
\* pop() default False applies), patch() calls it with partial=True.
Partial(method) == method = "PATCH"

\* variant: keys missing from validated_data are reset to the model defaults
UpdateSave_Replace(instance, ser, u) ==
    [instance EXCEPT
        !.title = FieldOr(ser.title, @),
        !.description = FieldOr(ser.description, @),
        !.contact_email = FieldOr(ser.contact_email, @),
        !.contact_phone = FieldOr(ser.contact_phone, Null),
        !.status = FieldOr(ser.status, "pending"),
        !.updated_at = u]

\* variant: created_at declared auto_now, so every save rewrites it
UpdateSave_TouchesCreated(instance, ser, u) ==
    [instance EXCEPT
        !.title = FieldOr(ser.title, @),
        !.description = FieldOr(ser.description, @),
        !.contact_email = FieldOr(ser.contact_email, @),
        !.contact_phone = FieldOr(ser.contact_phone, @),
        !.status = FieldOr(ser.status, @),
        !.created_at = u,
        !.updated_at = u]

\* serializer.save() of an update serializer: setattr for every key of
\* validated_data, then instance.save(), where auto_now re-reads the clock.
UpdateSave(instance, ser, u) ==
    [instance EXCEPT
        !.title = FieldOr(ser.title, @),
        !.description = FieldOr(ser.description, @),
        !.contact_email = FieldOr(ser.contact_email, @),
        !.contact_phone = FieldOr(ser.contact_phone, @),
        !.status = FieldOr(ser.status, @),
        !.updated_at = u]

\* variant: the accepted fields are saved before is_valid() is consulted
update_SavesBeforeValidating(partial, id, body) ==
    /\ IF id \notin Ids
       THEN /\ resp' = Plain(404)
            /\ UNCHANGED <<tickets, clock, last_write>>
       ELSE LET instance == tickets[id]
                ser == TicketUpdateSerializer(body, partial) IN
            \E d \in 0..1 :
               /\ Now(d) <= MaxClock
               /\ LET ticket == UpdateSave(instance, ser, Now(d)) IN
                  /\ tickets' = [tickets EXCEPT ![id] = ticket]
                  /\ clock' = Now(d)
                  /\ last_write' = Write("update", id, {})
                  /\ resp' = IF IsValid(ser)
                             THEN Response(200, {}, ticket, 0, <<>>, NoStats)
                             ELSE Response(400, Errors(ser), NoTicket, 0, <<>>, NoStats)

update(partial, id, body) ==
    /\ IF id \notin Ids
       THEN /\ resp' = Plain(404)
            /\ UNCHANGED <<tickets, clock, last_write>>
       ELSE LET instance == tickets[id]
                ser == TicketUpdateSerializer(body, partial) IN
            IF IsValid(ser)
            THEN \E d \in 0..1 :
                   /\ Now(d) <= MaxClock
                   /\ LET ticket == UpdateSave(instance, ser, Now(d)) IN
                      /\ tickets' = [tickets EXCEPT ![id] = ticket]
                      /\ clock' = Now(d)
                      /\ last_write' = Write("update", id, {})
                      /\ resp' = Response(200, {}, ticket, 0, <<>>, NoStats)
            ELSE /\ resp' = Response(400, Errors(ser), NoTicket, 0, <<>>, NoStats)
                 /\ UNCHANGED <<tickets, clock, last_write>>

Update ==
    \E method \in {"PUT", "PATCH"}, id \in 1..(MaxTickets + 1) :
        \E body \in UpdateBodies :
            /\ Idle
            /\ req' = Request("update", method, "detail", id, body, NoParams)
            /\ UNCHANGED inflight
            /\ update(Partial(method), id, body)

\* ------------------------------------------------------------ GET /tickets/<pk>/
retrieve(id) ==
    /\ Idle
    /\ req' = Request("retrieve", "GET", "detail", id, NoBody, NoParams)
    /\ UNCHANGED inflight
    /\ resp' = IF id \in Ids
               THEN Response(200, {}, tickets[id], 0, <<>>, NoStats)
               ELSE Plain(404)
    /\ UNCHANGED <<tickets, clock, last_write>>

Retrieve == \E id \in 1..(MaxTickets + 1) : retrieve(id)

\* ------------------------------------------------------------ GET /tickets/
S_hi == <<"h", "i">>
S_SHORT == <<"S", "H", "O", "R", "T">>
S_AtX == <<"@", "x">>
S_zz == <<"z", "z">>

SearchTerms == {Absent, <<>>, S_hi, S_SHORT, S_AtX, S_zz}
StatusParams == Statuses \cup {NoStatus, "", "bogus"}
Times == 0..MaxClock

\* ?created_after=..&created_before=.. added to a query
DateParams(params, after, before) ==
    [params EXCEPT !.created_after = after, !.created_before = before]

ListParams ==
    { Params(st, se) : st \in StatusParams, se \in SearchTerms }
    \cup
    { DateParams(Params(st, Absent), after, before) :
        st \in {NoStatus, "pending"},
        after \in Times \cup {NoTime}, before \in Times \cup {NoTime} }

\* variant: the search looks at the title only
get_queryset_TitleOnly(params) ==
    LET byStatus ==
            IF params.status \notin {NoStatus, ""}
            THEN {i \in Ids : tickets[i].status = params.status}
            ELSE Ids
    IN  IF params.search \notin {Absent, <<>>}
        THEN {i \in byStatus : IContains(tickets[i].title, params.search)}
        ELSE byStatus

\* get_queryset(): the status filter, then the three-field search
get_queryset(params) ==
    LET byStatus ==
            IF params.status \notin {NoStatus, ""}
            THEN {i \in Ids : tickets[i].status = params.status}
            ELSE Ids
    IN  IF params.search \notin {Absent, <<>>}
        THEN {i \in byStatus :
                \/ IContains(tickets[i].title, params.search)
                \/ IContains(tickets[i].description, params.search)
                \/ IContains(tickets[i].contact_email, params.search)}
        ELSE byStatus

\* DjangoFilterBackend over filterset_fields = ['status']: the generated
\* filter is a choice filter, so a value outside STATUS_CHOICES does not
\* validate; an empty value filters nothing.  The view names no
\* filterset_class, so the generated filter set has the status filter alone
\* and every other query parameter (created_after, created_before) is not
\* looked at.
StatusParamValid(params) == params.status \in Statuses \cup {NoStatus, ""}

DjangoFilterBackend(qs, params) ==
    IF params.status \notin {NoStatus, ""}
    THEN {i \in qs : tickets[i].status = params.status}
    ELSE qs

\* variant: the ordering is declared without the leading minus sign
Orderings_Ascending(qs) ==
    {o \in [1..Cardinality(qs) -> qs] :
        /\ \A i, j \in 1..Cardinality(qs) : i # j => o[i] # o[j]
        /\ \A i, j \in 1..Cardinality(qs) :
              i < j => tickets[o[i]].updated_at <= tickets[o[j]].updated_at}

\* OrderingFilter with ordering = ['-updated_at']: any arrangement of the
\* rows with updated_at descending (rows with equal keys come in the order
\* the database picks).
Orderings(qs) ==
    {o \in [1..Cardinality(qs) -> qs] :
        /\ \A i, j \in 1..Cardinality(qs) : i # j => o[i] # o[j]
        /\ \A i, j \in 1..Cardinality(qs) :
              i < j => tickets[o[i]].updated_at >= tickets[o[j]].updated_at}

\* PageNumberPagination, first page
Page(rows) == SubSeq(rows, 1, IF Len(rows) < PageSize THEN Len(rows) ELSE PageSize)

list(params) ==
    /\ IF StatusParamValid(params)
       THEN \E rows \in Orderings(DjangoFilterBackend(get_queryset(params), params)) :
              resp' = Response(200, {}, NoTicket, Len(rows), Page(rows), NoStats)
       ELSE \/ resp' = Response(400, {"status"}, NoTicket, 0, <<>>, NoStats)
            \/ resp' = Response(200, {}, NoTicket, 0, <<>>, NoStats)
    /\ UNCHANGED <<tickets, clock, last_write>>

List ==
    \E params \in ListParams :
        /\ Idle
        /\ req' = Request("list", "GET", "collection", 0, NoBody, params)
        /\ UNCHANGED inflight
        /\ list(params)

\* ------------------------------------------------------------ GET /tickets/stats/
\* variant: the rejected count filters on the resolved status
Count_CopyPaste(st) ==
    Cardinality({i \in Ids :
        tickets[i].status = (IF st = "rejected" THEN "resolved" ELSE st)})

Count(st) == Cardinality({i \in Ids : tickets[i].status = st})

ticket_stats ==
    /\ Idle
    /\ req' = Request("stats", "GET", "stats", 0, NoBody, NoParams)
    /\ UNCHANGED inflight
    /\ resp' = Response(200, {}, NoTicket, 0, <<>>,
                        [total |-> Cardinality(Ids),
                         pending |-> Count("pending"),
                         accepted |-> Count("accepted"),
                         resolved |-> Count("resolved"),
                         rejected |-> Count("rejected")])
    /\ UNCHANGED <<tickets, clock, last_write>>

\* ------------------------------------------------------------ TicketSerializer(data=...)
\* The full serializer run on input by a direct caller (the views use it for
\* output only): is_valid() fills errors or validated_data, nothing is saved.
TicketSerializer_is_valid(body) ==
    LET ser == TicketSerializer(body) IN
    /\ Idle
    /\ req' = Request("is_valid", "NONE", "none", 0, body, NoParams)
    /\ UNCHANGED inflight
    /\ resp' = IF IsValid(ser)
               THEN Response(0, {},
                             Ticket(0, ser.title.value, ser.description.value,
                                    ser.contact_email.value,
                                    FieldOr(ser.contact_phone, Absent),
                                    FieldOr(ser.status, NoStatus), 0, 0),
                             0, <<>>, NoStats)
               ELSE Response(0, Errors(ser), NoTicket, 0, <<>>, NoStats)
    /\ UNCHANGED <<tickets, clock, last_write>>

IsValidCall == \E body \in CreateBodies : TicketSerializer_is_valid(body)

\* ------------------------------------------------------------ routing
Routes == {"collection", "detail", "stats"}
Methods == {"GET", "POST", "PUT", "PATCH", "DELETE"}

\* urlpatterns and the methods each view class implements
Allowed(route) ==
    CASE route = "collection" -> {"GET", "POST"}
      [] route = "detail" -> {"GET", "PUT", "PATCH"}
      [] route = "stats" -> {"GET"}

\* a method the routed view does not implement: 405 before any handler runs
not_allowed(route, method, id) ==
    /\ Idle
    /\ method \notin Allowed(route)
    /\ req' = Request("not_allowed", method, route, id, NoBody, NoParams)
    /\ UNCHANGED inflight
    /\ resp' = Plain(405)
    /\ UNCHANGED <<tickets, clock, last_write>>

NotAllowed ==
    \E route \in Routes, method \in Methods :
        \E id \in (IF route = "detail" THEN 1..(MaxTickets + 1) ELSE {0}) :
            not_allowed(route, method, id)

\* variant: the admin keeps the default delete permission
has_delete_permission_Granted == TRUE

\* TicketAdmin.has_delete_permission
has_delete_permission == FALSE

DeleteRow(id) == SubSeq(tickets, 1, id - 1) \o SubSeq(tickets, id + 1, Len(tickets))

\* the admin site's delete view for a ticket: it removes the row only when
\* has_delete_permission() allows it
admin_delete(id) ==
    /\ Idle
    /\ req' = Request("admin_delete", "POST", "admin", id, NoBody, NoParams)
    /\ UNCHANGED inflight
    /\ IF ~has_delete_permission
       THEN resp' = Plain(403) /\ UNCHANGED tickets
       ELSE IF id \in Ids
       THEN resp' = Plain(302) /\ tickets' = DeleteRow(id)
       ELSE resp' = Plain(404) /\ UNCHANGED tickets
    /\ UNCHANGED <<clock, last_write>>

AdminDelete == \E id \in 1..(MaxTickets + 1) : admin_delete(id)

Next ==
    \/ Create
    \/ Update
    \/ Retrieve
    \/ List
    \/ ticket_stats
    \/ NotAllowed
    \/ AdminDelete
    \/ IsValidCall
    \/ Respond

Spec == Init /\ [][Next]_vars

\* ------------------------------------------------------------ overlapping requests
\* Several workers serve requests at once.  The database runs each query on
\* its own (autocommit, no transaction around a view), so a handler that runs
\* more than one query is a sequence of steps that other workers' queries
\* can come between: update() reads the row with get_object() and writes it
\* with save(); ticket_stats() runs five counts.  create() runs one INSERT.
ConcurrentCreateBodies ==
    { Body(T_Hi3, D_10, E_Ok, Absent, NoStatus, 0),
      Body(T_Hi, D_10, E_Ok, Absent, NoStatus, 0) }

\* two PATCH requests that change different fields, and a PUT that does not
\* validate
ConcurrentUpdates ==
    { <<"PATCH", TitleBody(T_Net)>>,
      <<"PATCH", StatusBody("resolved")>>,
      <<"PUT", StatusBody("resolved")>> }

ConcurrentCreate ==
    \E body \in ConcurrentCreateBodies :
        /\ Idle
        /\ req' = Request("create", "POST", "collection", 0, body, NoParams)
        /\ create(body)
        /\ UNCHANGED inflight

\* update(), first query: instance = self.get_object()
get_object(w, method, id, body) ==
    /\ Idle
    /\ inflight[w].pc = "idle"
    /\ id \in Ids
    /\ inflight' = [inflight EXCEPT ![w] =
                       Worker("update",
                              Request("update", method, "detail", id, body, NoParams),
                              tickets[id], 0, NoStats)]
    /\ UNCHANGED <<tickets, clock, last_write, req, resp>>

GetObject ==
    \E w \in Workers, id \in 1..MaxTickets :
        \E u \in ConcurrentUpdates : get_object(w, u[1], id, u[2])

\* variant: the row is read again (and locked) just before it is written
Instance_Reread(w) == tickets[inflight[w].req.id]

\* the model instance the serializer of worker w holds and saves
Instance(w) == inflight[w].instance

\* update(), the rest: is_valid(), then serializer.save() writes every
\* column of the instance back to the row, and the response goes out
save(w) ==
    LET request == inflight[w].req
        id == request.id
        ser == TicketUpdateSerializer(request.body, Partial(request.method)) IN
    /\ Idle
    /\ inflight[w].pc = "update"
    /\ req' = request
    /\ inflight' = [inflight EXCEPT ![w] = IdleWorker]
    /\ IF IsValid(ser)
       THEN \E d \in 0..1 :
              /\ Now(d) <= MaxClock
              /\ LET ticket == UpdateSave(Instance(w), ser, Now(d)) IN
                 /\ tickets' = [tickets EXCEPT ![id] = ticket]
                 /\ clock' = Now(d)
                 /\ last_write' =
                       Write("update", id,
                             {f \in Fields : ticket[f] # tickets[id][f]
                                              /\ ser[f].state # "ok"})
                 /\ resp' = Response(200, {}, ticket, 0, <<>>, NoStats)
       ELSE /\ resp' = Response(400, Errors(ser), NoTicket, 0, <<>>, NoStats)
            /\ UNCHANGED <<tickets, clock, last_write>>

Save == \E w \in Workers : save(w)

\* the five queries of ticket_stats(), in the order the dict literal runs them
StatsKeys == <<"total", "pending", "accepted", "resolved", "rejected">>

StatsQuery(k) == IF k = 1 THEN Cardinality(Ids) ELSE Count(StatsKeys[k])

\* ticket_stats(): the next count query of worker w; after the last one the
\* response goes out
stats_query(w) ==
    LET k == inflight[w].counted + 1
        stats == [inflight[w].stats EXCEPT ![StatsKeys[k]] = StatsQuery(k)] IN
    /\ Idle
    /\ inflight[w].pc \in {"idle", "stats"}
    /\ IF k < Len(StatsKeys)
       THEN /\ inflight' = [inflight EXCEPT ![w] =
                              Worker("stats",
                                     Request("stats", "GET", "stats", 0, NoBody, NoParams),
                                     NoTicket, k, stats)]
            /\ UNCHANGED <<req, resp>>
       ELSE /\ inflight' = [inflight EXCEPT ![w] = IdleWorker]
            /\ req' = inflight[w].req
            /\ resp' = Response(200, {}, NoTicket, 0, <<>>, stats)
    /\ UNCHANGED <<tickets, clock, last_write>>

StatsCount == \E w \in Workers : stats_query(w)

NextConcurrent ==
    \/ ConcurrentCreate
    \/ GetObject
    \/ Save
    \/ StatsCount
    \/ Respond

SpecConcurrent == Init /\ [][NextConcurrent]_vars

\* ====================================================================== claims
\* The rules of the specification, stated on request bodies independently of
\* the serializer operators above.
TextOf(x) == IF x \in {Absent, Null} THEN <<>> ELSE x
Trimmed(x) == Strip(TextOf(x))
HasAt(x) == \E i \in 1..Len(TextOf(x)) : TextOf(x)[i] = "@"
Supplied(body, f) == body[f] # (IF f = "status" THEN NoStatus ELSE Absent)

\* fields of a create body that break a rule of the ticket validation
CreateBadFields(body) ==
    {f \in Fields :
        \/ f = "title" /\ Len(Trimmed(body.title)) < 3
        \/ f = "description" /\ Len(Trimmed(body.description)) < 10
        \/ f = "contact_email" /\ ~HasAt(body.contact_email)
        \/ f = "contact_phone" /\ Len(Trimmed(body.contact_phone)) > 20}

\* fields of an update body that are supplied and break a rule
UpdateBadFields(body) ==
    {f \in Fields :
        /\ Supplied(body, f)
        /\ \/ f = "title" /\ Len(Trimmed(body.title)) < 3
           \/ f = "description" /\ Len(Trimmed(body.description)) < 10
           \/ f = "contact_email" /\ ~HasAt(body.contact_email)
           \/ f = "contact_phone" /\ Len(Trimmed(body.contact_phone)) > 20
           \/ f = "status" /\ body.status \notin Statuses}

\* C1: a create request whose input breaks a validation rule (trimmed title
\* shorter than 3, trimmed description shorter than 10, malformed e-mail,
\* phone longer than 20) is answered 400 with an error entry for every
\* offending field, and the ticket store is exactly what it was before.
C1_InvalidCreateStoresNothing ==
    [][(req'.op = "create" /\ CreateBadFields(req'.body) # {})
        => /\ resp'.code = 400
           /\ CreateBadFields(req'.body) \subseteq resp'.errors
           /\ tickets' = tickets]_vars

C1_Witness ==
    /\ req.op = "create"
    /\ req.body.title = T_HiPad
    /\ resp.code = 400
    /\ resp.errors = {"title"}
    /\ Len(tickets) >= 1

\* C2: an update request (PUT or PATCH) on an existing ticket whose input
\* breaks a validation rule is answered 400 with an error entry for every
\* offending field, and the stored tickets (status and updated_at included)
\* are unchanged, even when other supplied fields were valid.
C2_InvalidUpdateChangesNothing ==
    [][(req'.op = "update" /\ req'.id \in Ids /\ UpdateBadFields(req'.body) # {})
        => /\ resp'.code = 400
           /\ UpdateBadFields(req'.body) \subseteq resp'.errors
           /\ tickets' = tickets]_vars

C2_Witness ==
    /\ req.op = "update"
    /\ req.method = "PATCH"
    /\ req.id \in Ids
    /\ req.body.title = T_Net
    /\ req.body.status = "bogus"
    /\ resp.code = 400
    /\ resp.errors = {"status"}
    /\ tickets[req.id].title = T_Hi3

\* C3: a successful PATCH changes, in the addressed ticket, only the fields
\* present in the body and updated_at; id, created_at and every field not
\* supplied keep their values, and no other ticket changes.
C3_PatchFrame ==
    [][(req'.op = "update" /\ req'.method = "PATCH" /\ resp'.code = 200)
        => /\ req'.id \in Ids
           /\ Len(tickets') = Len(tickets)
           /\ \A j \in Ids \ {req'.id} : tickets'[j] = tickets[j]
           /\ tickets'[req'.id].id = tickets[req'.id].id
           /\ tickets'[req'.id].created_at = tickets[req'.id].created_at
           /\ \A f \in Fields :
                Supplied(req'.body, f) \/ tickets'[req'.id][f] = tickets[req'.id][f]]_vars

C3_Witness ==
    /\ req.op = "update"
    /\ req.method = "PATCH"
    /\ req.body = StatusBody("resolved")
    /\ resp.code = 200
    /\ tickets[req.id].status = "resolved"
    /\ tickets[req.id].contact_phone = P_20
    /\ tickets[req.id].title = T_Net
    /\ tickets[req.id].updated_at > tickets[req.id].created_at

\* the three keys the update serializer requires when it is not partial
RequiredKeys == {"title", "description", "contact_email"}
MissingKeys(body) == {f \in RequiredKeys : ~Supplied(body, f)}

\* C4 as stated: whatever the body, an update step is what PUT would do and
\* also what PATCH would do with that body (same response, same stored ticket).
C4_PutEqualsPatchAnyBody ==
    [][(req'.op = "update" /\ req'.id \in Ids)
        => /\ update(TRUE, req'.id, req'.body)
           /\ update(FALSE, req'.id, req'.body)]_vars

\* C4 (amended): PUT and PATCH carrying the same body give the same response
\* and the same stored ticket when the body supplies title, description and
\* contact_email (contact_phone and status may be omitted); a PUT whose body
\* omits one of these three is answered 400 with an error for each omitted
\* key and changes nothing.
C4_PutEqualsPatchWhenRequiredSupplied ==
    [][(req'.op = "update" /\ req'.id \in Ids)
        => IF MissingKeys(req'.body) = {}
           THEN /\ update(TRUE, req'.id, req'.body)
                /\ update(FALSE, req'.id, req'.body)
           ELSE req'.method = "PUT"
                => /\ resp'.code = 400
                   /\ MissingKeys(req'.body) \subseteq resp'.errors
                   /\ tickets' = tickets]_vars

C4_Witness ==
    /\ req.op = "update"
    /\ req.method = "PUT"
    /\ req.body = RequiredBody
    /\ resp.code = 200
    /\ tickets[req.id].status = "resolved"
    /\ tickets[req.id].title = T_Hi3

\* C5: no request removes a ticket: every step keeps each stored ticket under
\* its id and never shortens the store; a DELETE on any route is answered
\* 405 (or 404) and the admin delete 403, both leaving the store unchanged.
C5_NoTicketIsEverDeleted ==
    [][/\ Len(tickets') >= Len(tickets)
       /\ \A i \in Ids : tickets'[i].id = i
       /\ (req'.method = "DELETE" \/ req'.op = "admin_delete")
            => (resp'.code \in {403, 404, 405} /\ tickets' = tickets)]_vars

C5_Witness ==
    /\ req.method = "DELETE"
    /\ req.route = "detail"
    /\ req.id \in Ids
    /\ resp.code = 405
    /\ Len(tickets) = MaxTickets

\* C6: a ticket made by the create operation is stored with status pending
\* and with the next server-assigned id, whatever status or id the body sent.
C6_CreatedTicketIsPending ==
    [][(req'.op = "create" /\ resp'.code = 201)
        => /\ Len(tickets') = Len(tickets) + 1
           /\ tickets'[Len(tickets')].status = "pending"
           /\ tickets'[Len(tickets')].id = Len(tickets) + 1
           /\ resp'.data = tickets'[Len(tickets')]
           /\ \A i \in Ids : tickets'[i] = tickets[i]]_vars

C6_Witness ==
    /\ req.op = "create"
    /\ req.body.status = "resolved"
    /\ req.body.id = 9
    /\ resp.code = 201
    /\ Len(tickets) = 2
    /\ tickets[2].status = "pending"

RECURSIVE HowMany(_, _)
HowMany(rows, st) ==
    IF rows = <<>> THEN 0
    ELSE (IF Head(rows).status = st THEN 1 ELSE 0) + HowMany(Tail(rows), st)

\* C7: a stats response carries total = number of stored tickets and, for
\* each of the four statuses, the number of stored tickets with that status.
C7_StatsCountTheStore ==
    req.op = "stats"
        => /\ resp.code = 200
           /\ resp.stats.total = Len(tickets)
           /\ resp.stats.pending = HowMany(tickets, "pending")
           /\ resp.stats.accepted = HowMany(tickets, "accepted")
           /\ resp.stats.resolved = HowMany(tickets, "resolved")
           /\ resp.stats.rejected = HowMany(tickets, "rejected")

C7_Witness ==
    /\ req.op = "stats"
    /\ resp.stats.total = 2
    /\ resp.stats.resolved = 1
    /\ resp.stats.rejected = 1

\* C8: created_at never changes once a ticket exists, updated_at never goes
\* back, and updated_at >= created_at for every stored ticket.
C8_Timestamps ==
    [][\A i \in 1..Len(tickets') :
         /\ tickets'[i].updated_at >= tickets'[i].created_at
         /\ i \in Ids => /\ tickets'[i].created_at = tickets[i].created_at
                         /\ tickets'[i].updated_at >= tickets[i].updated_at]_vars

C8_Witness ==
    /\ req.op = "update"
    /\ resp.code = 200
    /\ tickets[req.id].created_at = 0
    /\ tickets[req.id].updated_at = 1

\* C9: every stored status is one of the four values; an update supplying
\* any other status is answered 400 with a status error and changes nothing;
\* a PATCH supplying only one of the four values succeeds and stores it,
\* whatever the current status is.
C9_StatusStaysInEnumeration ==
    [][/\ \A i \in 1..Len(tickets') : tickets'[i].status \in Statuses
       /\ (req'.op = "update" /\ req'.id \in Ids)
            => /\ req'.body.status \notin (Statuses \cup {NoStatus})
                 => /\ resp'.code = 400
                    /\ "status" \in resp'.errors
                    /\ tickets' = tickets
               /\ \A s \in Statuses :
                    (req'.method = "PATCH" /\ req'.body = StatusBody(s))
                       => (resp'.code = 200 /\ tickets'[req'.id].status = s)]_vars

C9_Witness ==
    /\ req.op = "update"
    /\ req.body = StatusBody("pending")
    /\ resp.code = 200
    /\ Len(tickets) = 2
    /\ tickets[req.id].status = "pending"
    /\ tickets[3 - req.id].status = "rejected"
    /\ tickets[req.id].updated_at > tickets[req.id].created_at

\* the search rule of the specification: the term occurs in the text when
\* letter case is ignored
SameLetter(a, b) == a = b \/ LowerChar(a) = b \/ a = LowerChar(b)
Occurs(text, term) ==
    \E k \in 1..(Len(text) - Len(term) + 1) :
        \A j \in 1..Len(term) : SameLetter(text[k + j - 1], term[j])

Matching(params) ==
    {i \in Ids :
        /\ params.status \in {NoStatus, ""} \/ tickets[i].status = params.status
        /\ \/ params.search \in {Absent, <<>>}
           \/ Occurs(tickets[i].title, params.search)
           \/ Occurs(tickets[i].description, params.search)
           \/ Occurs(tickets[i].contact_email, params.search)}

InCreatedBounds(i, params) ==
    /\ params.created_after = NoTime \/ tickets[i].created_at >= params.created_after
    /\ params.created_before = NoTime \/ tickets[i].created_at <= params.created_before

C11_ListHonoursCreatedBounds ==
    (req.op = "list" /\ resp.code = 200)
        => /\ \A k \in 1..Len(resp.results) : InCreatedBounds(resp.results[k], req.params)
           /\ \A i \in Matching(req.params) :
                InCreatedBounds(i, req.params)
                    => \E k \in 1..Len(resp.results) : resp.results[k] = i

\* the list operation run with a created_after bound equal to one ticket's
\* created_at and later than another's
C11_Witness ==
    /\ req.op = "list"
    /\ req.params = DateParams(NoParams, 1, NoTime)
    /\ resp.code = 200
    /\ Len(tickets) = 2
    /\ tickets[1].created_at = 0
    /\ tickets[2].created_at = 1

\* the ticket a create step has just stored
Created == tickets'[Len(tickets')]

\* C13 as stated: a ticket created with valid input has created_at equal to
\* updated_at at creation time, and status pending.
C13_CreatedAtEqualsUpdatedAt ==
    [][(req'.op = "create" /\ resp'.code = 201)
        => /\ Created.created_at = Created.updated_at
           /\ Created.status = "pending"]_vars

\* C13 (amended): a ticket created with valid input has status pending and
\* two timestamps read from the clock during the request, created_at first:
\* created_at is not later than updated_at, and neither is earlier than the
\* clock before the request or later than the clock after it.
C13_CreatedAtNotAfterUpdatedAt ==
    [][(req'.op = "create" /\ resp'.code = 201)
        => /\ Created.status = "pending"
           /\ clock <= Created.created_at
           /\ Created.created_at <= Created.updated_at
           /\ Created.updated_at <= clock']_vars

C13_Witness ==
    /\ req.op = "create"
    /\ resp.code = 201
    /\ resp.data.id = Len(tickets)
    /\ tickets[Len(tickets)].status = "pending"
    /\ tickets[Len(tickets)].created_at = 0
    /\ tickets[Len(tickets)].updated_at = 1

\* a step in which one of the three serializers validated a body
Validated ==
    \/ req'.op \in {"create", "is_valid"}
    \/ req'.op = "update" /\ req'.id \in Ids

\* the validated title and description are the trimmed input texts, in the
\* response and, for create and update, in the stored ticket
KeepsTrimmedText ==
    (Validated /\ resp'.errors = {})
        => \A f \in {"title", "description"} :
              Supplied(req'.body, f)
                 => /\ resp'.data[f] = Trimmed(req'.body[f])
                    /\ req'.op \in {"create", "update"}
                         => tickets'[resp'.data.id][f] = Trimmed(req'.body[f])

\* C14 as stated: whichever of the three serializers validates a body, a
\* supplied title is accepted exactly when its trimmed text has at least 3
\* characters, a supplied description exactly when its trimmed text has at
\* least 10, and the accepted value is the trimmed text.
C14_AcceptedExactlyWhenLongEnough ==
    [][/\ Validated
          => /\ Supplied(req'.body, "title")
                  => ("title" \notin resp'.errors <=> Len(Trimmed(req'.body.title)) >= 3)
             /\ Supplied(req'.body, "description")
                  => ("description" \notin resp'.errors
                         <=> Len(Trimmed(req'.body.description)) >= 10)
       /\ KeepsTrimmedText]_vars

\* C14 (amended): a supplied title is accepted exactly when its trimmed text
\* has at least 3 and at most 200 characters, a supplied description exactly
\* when its trimmed text has at least 10; the accepted value is the trimmed
\* text; the full, create and update serializers all behave so.
C14_AcceptedExactlyWhenWithinLimits ==
    [][/\ Validated
          => /\ Supplied(req'.body, "title")
                  => ("title" \notin resp'.errors
                         <=> /\ Len(Trimmed(req'.body.title)) >= 3
                             /\ Len(Trimmed(req'.body.title)) <= 200)
             /\ Supplied(req'.body, "description")
                  => ("description" \notin resp'.errors
                         <=> Len(Trimmed(req'.body.description)) >= 10)
       /\ KeepsTrimmedText]_vars

\* the full serializer accepting a padded title and description, trimmed
C14_Witness ==
    /\ req.op = "is_valid"
    /\ req.body.title = T_Hi3Pad
    /\ req.body.description = D_10Pad
    /\ resp.errors = {}
    /\ resp.data.title = T_Hi3
    /\ resp.data.description = D_10
    /\ Len(tickets) >= 1

\* a list response comes in descending updated_at order
Descending(results) ==
    \A k, l \in 1..Len(results) :
        k < l => tickets[results[k]].updated_at >= tickets[results[l]].updated_at

\* C15 as stated: a list response is in descending updated_at order, and when
\* the most recent write was a successful update of ticket t, t is the first
\* ticket of the unfiltered list.
C15_UpdatedTicketIsFirst ==
    (req.op = "list" /\ resp.code = 200)
        => /\ Descending(resp.results)
           /\ (req.params = NoParams /\ last_write.op = "update")
                => resp.results[1] = last_write.id

\* C15 (amended): a list response is in descending updated_at order, and when
\* the most recent write was a successful update of ticket t, no other ticket
\* has a later updated_at than t: t is in the unfiltered list and every
\* ticket listed before it has the same updated_at as t.
C15_UpdatedTicketIsFirstUpToTies ==
    (req.op = "list" /\ resp.code = 200)
        => /\ Descending(resp.results)
           /\ (req.params = NoParams /\ last_write.op = "update")
                => \E k \in 1..Len(resp.results) :
                     /\ resp.results[k] = last_write.id
                     /\ \A l \in 1..k :
                          tickets[resp.results[l]].updated_at
                             = tickets[last_write.id].updated_at

C15_Witness ==
    /\ req.op = "list"
    /\ req.params = NoParams
    /\ resp.code = 200
    /\ last_write = Write("update", 1, {})
    /\ resp.results = <<1, 2>>
    /\ tickets[1].updated_at = 1
    /\ tickets[2].updated_at = 0

\* worker w answers its update request in this step
AnswersUpdate(w) == inflight[w].pc = "update" /\ inflight'[w].pc = "idle"

\* the body of an update request meets every validation rule
ValidUpdate(request) ==
    /\ UpdateBadFields(request.body) = {}
    /\ request.method = "PATCH" \/ MissingKeys(request.body) = {}

\* C12: with update requests overlapping, every update whose input is valid
\* is answered 200 and writes the whole record back from the copy it read,
\* with no version check: each field it did not supply gets the value of
\* that copy, whatever the row holds by then, so the later write wins and
\* the effect of an update written in between (even on other fields) is gone.
C12_LaterWriteWins ==
    [][\A w \in Workers :
         (AnswersUpdate(w) /\ ValidUpdate(inflight[w].req))
            => LET id == inflight[w].req.id IN
               /\ resp'.code = 200
               /\ req' = inflight[w].req
               /\ resp'.data = tickets'[id]
               /\ tickets'[id].created_at = inflight[w].instance.created_at
               /\ \A f \in Fields :
                    \/ Supplied(req'.body, f)
                    \/ tickets'[id][f] = inflight[w].instance[f]
               /\ \A j \in Ids \ {id} : tickets'[j] = tickets[j]]_vars

\* two overlapping PATCH requests on one ticket, one setting the title and
\* one setting the status, both answered 200: the status request wrote last
\* and put the old title back
C12_Witness ==
    /\ req.op = "update"
    /\ req.method = "PATCH"
    /\ req.body = StatusBody("resolved")
    /\ resp.code = 200
    /\ last_write = Write("update", req.id, {"title"})
    /\ tickets[req.id].title = T_Hi3
    /\ tickets[req.id].status = "resolved"

\* C16: every stats response is consistent in itself, also when creates and
\* updates of other callers come between its queries: total is the sum of
\* the pending, accepted, resolved and rejected counts of the same response.
C16_StatsTotalIsSumOfCounts ==
    (req.op = "stats" /\ resp.code = 200)
        => resp.stats.total = resp.stats.pending + resp.stats.accepted
                                + resp.stats.resolved + resp.stats.rejected

\* a stats response whose counts were taken around another caller's create
C16_Witness ==
    /\ req.op = "stats"
    /\ resp.code = 200
    /\ resp.stats.total = 1
    /\ resp.stats.pending = 2
    /\ Len(tickets) = 2

====
